---------------------------- MODULE Spec2Model ----------------------------
(***************************************************************************)
(* A model of the particle system of christopherace/testGltf:              *)
(*   - SDFGenerator (src/SDFGenerator.js): the sliced, cancellable         *)
(*     generate() run, its progress reports and its clamped store;         *)
(*   - ParticleSystemFactory (src/ParticleSystemFactory.js): the plane     *)
(*     frame derived in _buildSystem, the engine instance (step, dispose)  *)
(*     and the factory that builds and tracks the instances.               *)
(* Each part has its own specification over its own variables; the other   *)
(* parts' variables stay at their initial values. The factory part has     *)
(* four: SpecFactory (creation and teardown), SpecParams (one instance,    *)
(* its parameters), SpecEngine (the run flag, the density field and the    *)
(* render target) and SpecShared (two instances on one volume); they       *)
(* differ in the calls the callers make.                                   *)
(***************************************************************************)
EXTENDS Integers, Sequences, FiniteSets, TLC

VARIABLES
  cancelFlag,   \* SDFGenerator._cancel
  runs,         \* the generate() calls made on the generator, by call id
  voxel,        \* one voxel's inputs and the value stored for it
  frame,        \* one plane mesh's vertices and the frame derived from them
  factory,      \* whether the ParticleSystemFactory has been constructed
  tracked,      \* ParticleSystemFactory._instances, in insertion order
  inst,         \* the engine instances, by id
  call,         \* the call just made on the factory or an instance, and what it did
  cells,        \* the value of every uniform cell ({ value: ... }) of the instances
  renderTarget, \* the render target the factory's renderer is bound to
  sdf           \* the SDF volume the caller passes to createFromPlane as sdfData

vars == <<cancelFlag, runs, voxel, frame, factory, tracked, inst, call,
          cells, renderTarget, sdf>>

\* what the actions of one part leave alone
engine == <<cells, renderTarget, sdf>>
notGen == <<voxel, frame, factory, tracked, inst, call, engine>>
notVoxel == <<cancelFlag, runs, frame, factory, tracked, inst, call, engine>>
notFrame == <<cancelFlag, runs, voxel, factory, tracked, inst, call, engine>>
notPsf == <<cancelFlag, runs, voxel, frame, sdf>>

(***************************************************************************)
(* SDFGenerator.generate: the slice loop                                   *)
(***************************************************************************)

\* the largest small grid size n that is tried
MaxN == 3
\* the divisor of the progress throttle, Math.floor(n / 20)
ProgressUpdates == 20

\* The generate() calls that may be made on one generator.
RunIds == {"g1", "g2"}

\* Grid sizes: the small ones, where every slice reports, and two sizes with
\* a throttle stride of 2 (one whose last slice reports, one whose does not).
Sizes == (1 .. MaxN) \cup {2 * ProgressUpdates, 2 * ProgressUpdates + 1}

Max(a, b) == IF a >= b THEN a ELSE b

\* Math.max(1, Math.floor(n / 20))
Stride(n) == Max(1, n \div ProgressUpdates)

\* const total = n * n * n
Total(n) == n * n * n

\* A generate() call that has not been made yet.
IdleRun ==
  [pc |-> "idle", n |-> 0, cb |-> FALSE, z |-> 0, counted |-> 0,
   yields |-> {}, progress |-> <<>>, cancelSeen |-> FALSE]

\* The state of a call on entry to the slice loop (lines 96-101).
NewRun(n, cb) ==
  [pc |-> "running", n |-> n, cb |-> cb, z |-> 0, counted |-> 0,
   yields |-> {}, progress |-> <<>>, cancelSeen |-> FALSE]

\* if (onProgress && (z % Math.max(1, Math.floor(n / 20)) === 0))
ReportsAt(run) == run.cb /\ (run.z % Stride(run.n) = 0)

RECURSIVE Gcd(_, _)
Gcd(a, b) == IF b = 0 THEN a ELSE Gcd(b, a % b)

\* The quotient a / b of two counts (b > 0), as a fraction in lowest terms.
Quotient(a, b) == <<a \div Gcd(a, b), b \div Gcd(a, b)>>

\* A report that divides by the voxels of one slice instead of the total.
ProgressValuePerSlice(run) == Quotient(run.counted, run.n * run.n)

\* onProgress(counted / total)
ProgressValue(run) == Quotient(run.counted, Total(run.n))

\* The inner y/x loops of one slice: n * n voxels are stored and counted.
ComputeSlice(run) == [run EXCEPT !.counted = @ + run.n * run.n]

\* The slice loop from the loop test at index run.z up to the next await,
\* the cancellation throw or the return, under the given value of _cancel.
RECURSIVE SliceLoop(_, _)
SliceLoop(run, cancel) ==
  IF run.z >= run.n THEN [run EXCEPT !.pc = "resolved"]
  ELSE IF cancel THEN [run EXCEPT !.pc = "cancelled"]
  ELSE LET done == ComputeSlice(run)
       IN IF ReportsAt(done)
          THEN [done EXCEPT !.progress = Append(@, ProgressValue(done)),
                            !.yields = @ \cup {done.z},
                            !.pc = "suspended"]
          ELSE SliceLoop([done EXCEPT !.z = @ + 1], cancel)

\* generate(scene, {n, onProgress}) up to its first await: a missing scene
\* throws before the flag is touched; otherwise the flag is reset and the
\* loop runs until it yields, throws or returns.
Generate(r, scene, n, cb) ==
  /\ runs[r].pc = "idle"
  /\ IF ~scene
     THEN /\ runs' = [runs EXCEPT ![r] = [IdleRun EXCEPT !.pc = "failed"]]
          /\ UNCHANGED cancelFlag
     ELSE /\ cancelFlag' = FALSE
          /\ runs' = [runs EXCEPT ![r] = SliceLoop(NewRun(n, cb), FALSE)]
  /\ UNCHANGED notGen

\* The timer of the await fires: z++ and the loop goes on.
Resume(r) ==
  /\ runs[r].pc = "suspended"
  /\ runs' = [runs EXCEPT ![r] =
                SliceLoop([runs[r] EXCEPT !.z = @ + 1, !.pc = "running"], cancelFlag)]
  /\ UNCHANGED <<cancelFlag, notGen>>

\* The calls in progress are noted as having had cancel() called on them.
NoteCancel ==
  [r \in RunIds |-> IF runs[r].pc = "suspended"
                    THEN [runs[r] EXCEPT !.cancelSeen = TRUE]
                    ELSE runs[r]]

\* cancel() { this._cancel = true; }   The caller runs between two slices
\* (or inside onProgress, which is followed at once by the await).
Cancel ==
  /\ cancelFlag' = TRUE
  /\ runs' = NoteCancel
  /\ UNCHANGED notGen

\* dispose() { this._cancel = true; }
GeneratorDispose ==
  /\ cancelFlag' = TRUE
  /\ UNCHANGED <<runs, notGen>>

\* No generate() call has been made.
NoRuns == [r \in RunIds |-> IdleRun]

(***************************************************************************)
(* SDFGenerator.generate: the value stored for one voxel (lines 115-131)   *)
(***************************************************************************)

\* the largest distance and the largest maxDistance that are tried
MaxDist == 5
\* the longest triangle list that is tried
MaxTris == 2
\* Doubles are whole numbers of a fine unit; the single-precision values of
\* the Float32Array are the multiples of F32Step of that unit.
F32Step == 4

\* A JavaScript number: finite, an infinity (v is its sign) or NaN.
Fin(x) == [k |-> "fin", v |-> x]
PosInf == [k |-> "inf", v |-> 1]
NaN == [k |-> "nan", v |-> 0]

\* a < b on numbers: false as soon as one side is NaN
Lt(a, b) ==
  IF a.k = "nan" \/ b.k = "nan" THEN FALSE
  ELSE IF a.k = "inf" THEN a.v = -1 /\ ~(b.k = "inf" /\ b.v = -1)
  ELSE IF b.k = "inf" THEN b.v = 1
  ELSE a.v < b.v

\* a > b
Gt(a, b) == Lt(b, a)

\* -a
Neg(a) == IF a.k = "nan" THEN a ELSE [a EXCEPT !.v = -(a.v)]

\* Math.sqrt on the values a squared distance takes (exact squares,
\* Infinity, NaN)
Sqrt(a) ==
  IF a.k = "nan" THEN NaN
  ELSE IF a.k = "inf" THEN (IF a.v = 1 THEN PosInf ELSE NaN)
  ELSE IF a.v < 0 THEN NaN
  ELSE Fin(CHOOSE x \in 0 .. a.v : x * x = a.v)

\* Rounding of a finite magnitude to the nearest multiple of F32Step, ties
\* to the even multiple.
RoundMagnitude(m) ==
  LET q == m \div F32Step
      r == m % F32Step
  IN IF 2 * r < F32Step THEN q * F32Step
     ELSE IF 2 * r > F32Step THEN (q + 1) * F32Step
     ELSE IF q % 2 = 0 THEN q * F32Step ELSE (q + 1) * F32Step

\* The conversion of the store data[ptr++] = d into a Float32Array.
Fround(a) ==
  IF a.k # "fin" THEN a
  ELSE IF a.v >= 0 THEN Fin(RoundMagnitude(a.v))
  ELSE Fin(-RoundMagnitude(-(a.v)))

\* What pointToTriDistanceSquared can return: a squared distance, Infinity
\* (overflow) or NaN (a NaN sample point, a degenerate triangle).
D2Values == {Fin(x * x) : x \in 0 .. MaxDist} \cup {PosInf, NaN}

SeqsUpTo(S, len) == UNION {[1 .. m -> S] : m \in 0 .. len}

\* let minD2 = Infinity; for (...) { if (d2 < minD2) minD2 = d2; }
RECURSIVE MinD2(_, _, _)
MinD2(tris, i, minD2) ==
  IF i > Len(tris) THEN minD2
  ELSE MinD2(tris, i + 1, IF Lt(tris[i], minD2) THEN tris[i] ELSE minD2)

\* if (inside) d = -d;
Signed(d, inside) == IF inside THEN Neg(d) ELSE d

\* A clamp that forgets the lower bound.
ClampUpperOnly(d, maxD) == IF Gt(d, maxD) THEN maxD ELSE d

\* if (d > maxD) d = maxD; if (d < -maxD) d = -maxD;
Clamp(d, maxD) ==
  LET d1 == IF Gt(d, maxD) THEN maxD ELSE d
  IN IF Lt(d1, Neg(maxD)) THEN Neg(maxD) ELSE d1

\* The value data[ptr] holds for a voxel, from the squared distances of the
\* triangles to the sample point and the parity of the ray test.
StoredValue(tris, inside, maxD) ==
  Fround(Clamp(Signed(Sqrt(MinD2(tris, 1, PosInf)), inside), Fin(maxD)))

VoxIdle == [pc |-> "none"]

\* One voxel about to be computed: the generator's maxDistance (>= 0), the
\* squared distances of its triangles, and whether the ray count is odd.
VoxelInputs ==
  {[pc |-> "sample", maxD |-> maxD, tris |-> tris, inside |-> inside] :
     maxD \in 0 .. MaxDist, tris \in SeqsUpTo(D2Values, MaxTris), inside \in BOOLEAN}

\* Lines 115-131 for that voxel.
StoreVoxel ==
  /\ voxel.pc = "sample"
  /\ voxel' = [pc |-> "stored", maxD |-> voxel.maxD, tris |-> voxel.tris,
               inside |-> voxel.inside,
               data |-> StoredValue(voxel.tris, voxel.inside, voxel.maxD)]
  /\ UNCHANGED notVoxel

(***************************************************************************)
(* ParticleSystemFactory._buildSystem: the plane frame (lines 152-177)     *)
(***************************************************************************)

\* the largest vertex coordinate that is tried
MaxCoord == 2
\* the longest vertex list that is tried
MaxVerts == 4

\* The world-space vertex positions (posAttr after applyMatrix4) of a planar
\* mesh: points of the plane y = 0.
Points == {<<x, 0, z>> : x \in 0 .. MaxCoord, z \in 0 .. MaxCoord}

\* THREE.Vector3 arithmetic
SubVectors(a, b) == <<a[1] - b[1], a[2] - b[2], a[3] - b[3]>>
Dot(a, b) == a[1] * b[1] + a[2] * b[2] + a[3] * b[3]
CrossVectors(a, b) ==
  <<a[2] * b[3] - a[3] * b[2], a[3] * b[1] - a[1] * b[3], a[1] * b[2] - a[2] * b[1]>>
LengthSq(a) == Dot(a, a)

\* tmp.distanceTo(v) > 1e-6: on whole coordinates, tmp and v differ
Apart(a, b) == LengthSq(SubVectors(a, b)) > 0

\* A vector num / sqrt(den2): what normalize() produces from whole vectors.
Scaled(num, den2) == [num |-> num, den2 |-> den2]
Raw(v) == Scaled(v, 1)

\* Vector3.normalize(): divideScalar(length() || 1), so the zero vector
\* stays the zero vector.
Normalize(s) ==
  IF LengthSq(s.num) = 0 THEN s ELSE Scaled(s.num, LengthSq(s.num))

\* Vector3.crossVectors on scaled vectors
CrossScaled(a, b) == Scaled(CrossVectors(a.num, b.num), a.den2 * b.den2)

\* The max corner of geometry.boundingBox
Maximum(S) == CHOOSE m \in S : \A x \in S : x <= m
BoxMax(verts) ==
  <<Maximum({verts[i][1] : i \in 1 .. Len(verts)}),
    Maximum({verts[i][2] : i \in 1 .. Len(verts)}),
    Maximum({verts[i][3] : i \in 1 .. Len(verts)})>>

\* for (let i = 2; i < posAttr.count; i++) { ... vC = tmp; break; }
\* and the bounding-box fallback when no vertex qualifies (1-based indices)
RECURSIVE PickC(_, _)
PickC(verts, i) ==
  IF i > Len(verts) THEN BoxMax(verts)
  ELSE IF Apart(verts[i], verts[1]) /\ Apart(verts[i], verts[2]) THEN verts[i]
  ELSE PickC(verts, i + 1)

\* basisX, basisY, basisZ of lines 172-177
PlaneBasis(verts) ==
  LET vA == verts[1]
      vB == verts[2]
      vC == PickC(verts, 3)
      edgeAB == SubVectors(vB, vA)
      edgeAC == SubVectors(vC, vA)
      basisX == Normalize(Raw(edgeAB))
      basisY == Normalize(CrossScaled(Raw(edgeAB), Raw(edgeAC)))
      basisZ == Normalize(CrossScaled(basisY, basisX))
  IN [basisX |-> basisX, basisY |-> basisY, basisZ |-> basisZ]

FrameIdle == [pc |-> "none"]

\* The vertex lists a plane mesh may have.
VertexLists == UNION {[1 .. m -> Points] : m \in 2 .. MaxVerts}

\* _buildSystem derives the frame of the mesh.
BuildFrame ==
  /\ frame.pc = "mesh"
  /\ frame' = [pc |-> "built", verts |-> frame.verts, basis |-> PlaneBasis(frame.verts)]
  /\ UNCHANGED notFrame

(***************************************************************************)
(* ParticleSystemFactory: the factory and its engine instances             *)
(***************************************************************************)

\* the most step() calls made on one instance
MaxSteps == 2
\* the most dispose() calls made on one instance
MaxDisposals == 2

\* The instances a factory may build, in this order.
InstIds == {1, 2}

\* What instance.dispose() releases (lines 489-494).
Resources ==
  {"gpuCompute", "particleMaterial", "geometry", "densityRT", "densityRTTemp",
   "splatMaterial", "blurMaterialH", "blurMaterialV"}

\* What may be passed as planeMesh.
Meshes == {"null", "nogeometry", "mesh"}

\* A render target of a compute variable: <<variable, slot>>.
Target(variable, slot) == <<variable, slot>>

\* An instance that has not been built.
NoInstance == [st |-> "none"]
NoInstances == [i \in InstIds |-> NoInstance]

\* No call has been made.
NoCall == [op |-> "none"]

\* renderer.setRenderTarget(null): the main framebuffer
MainFramebuffer == <<"null", 0>>

\* A render target of the caller's own, bound by the caller between calls.
CallerTarget == <<"caller", 0>>

\* The values of the uniform cells, all written <<kind, n>>: the value a cell
\* gets in _buildSystem, a value passed to updateUniforms, the elapsed and the
\* delta time passed to step, and the textures.
AtBuild == <<"built", 0>>
Given(v) == <<"given", v>>
Elapsed(t) == <<"elapsed", t>>
Delta(d) == <<"delta", d>>
NullTexture == <<"null", 0>>
SdfTexture == <<"sdfData.texture", 0>>

\* The volume passed as sdfData by the caller, who owns it: the version of
\* its data and the release calls it has received.
SharedVolume == [texture |-> SdfTexture, writes |-> 0, released |-> 0]

\* The names of sharedUniforms (lines 277-283), of the plane parameters
\* (lines 288-291), of the parameters the velocity stage alone gets (lines
\* 297, 405-408) and of the particle material (lines 327-335).
SharedUniforms ==
  {"uResolution", "uTime", "uDeltaTime", "planeSize", "uRiseSpeed",
   "uSpreadStrength", "uNoiseScale", "uCollisionStrength", "uSpawnScale",
   "uGravityScale", "uDrag", "uSDF", "uSDFWorldToUnit",
   "uSDFCollisionThreshold", "uSDFEnabled", "uMaxHeightAlongNormalHeight",
   "uFlipDamp"}
PlaneUniforms == {"planeOffset", "planeBasisX", "planeBasisY", "planeBasisZ"}
VelocityUniforms ==
  {"uMaxAge", "uDensityTex", "uDensityScale", "uDensityThreshold", "uDensityTexel"}
RenderUniforms ==
  {"uTexturePosition", "uTextureVelocity", "uTime", "uMaxAge", "uSpeedScale",
   "uDensityTex", "uDensityScale"}

\* The three parameter sets updateUniforms looks at, in the order of its
\* tests (lines 482-484).
Stages == <<"velocity", "position", "render">>

\* Cells kept once for the module instead of once for each build.
ModuleCell(i, owner, name) == <<0, owner, name>>

\* A cell { value: ... } made by the build of instance i for the named set.
Cell(i, owner, name) == <<i, owner, name>>

\* A plane parameter of the velocity stage with a cell of its own, as the
\* splat material has (lines 368-370).
OwnPlaneCell(i, name) == Cell(i, "velocity", name)

\* velocityVariable.material.uniforms.planeOffset =
\*   positionVariable.material.uniforms.planeOffset   (lines 293-296)
VelocityPlaneCell(i, name) == Cell(i, "position", name)

StageNames == {Stages[n] : n \in 1 .. Len(Stages)}

\* The names a stage's uniforms object declares after _buildSystem.
Declared(stage) ==
  IF stage = "position" THEN SharedUniforms \cup PlaneUniforms
  ELSE IF stage = "velocity"
  THEN SharedUniforms \cup PlaneUniforms \cup VelocityUniforms
  ELSE RenderUniforms

\* k in <stage>.uniforms
Declares(stage, k) == k \in Declared(stage)

\* <stage>.uniforms[k] of instance i. Object.assign puts the same cells of
\* sharedUniforms in the position and the velocity stage (lines 285-286).
Uniform(i, stage, k) ==
  IF stage = "render" THEN Cell(i, "render", k)
  ELSE IF k \in SharedUniforms THEN Cell(i, "shared", k)
  ELSE IF k \in PlaneUniforms
  THEN (IF stage = "velocity" THEN VelocityPlaneCell(i, k)
        ELSE Cell(i, "position", k))
  ELSE Cell(i, "velocity", k)

\* The cells of instance i.
CellsOf(i) ==
  UNION {{Uniform(i, stage, k) : k \in Declared(stage)} : stage \in StageNames}

\* The value each cell of instance i gets in _buildSystem.
BuiltCells(i, sdfData) ==
  [c \in CellsOf(i) |->
     IF c[3] = "uSDF" THEN (IF sdfData THEN sdf.texture ELSE NullTexture)
     ELSE IF c[3] = "uSDFEnabled" THEN <<"enabled", IF sdfData THEN 1 ELSE 0>>
     ELSE IF c[3] \in {"uSDFWorldToUnit", "uSDFCollisionThreshold"} /\ sdfData
     THEN <<"sdfData.bbox", 0>>
     ELSE IF c[3] = "uDensityTex" THEN NullTexture
     ELSE IF c[3] = "uTexturePosition" THEN <<"position", 0>>
     ELSE IF c[3] = "uTextureVelocity" THEN <<"velocity", 0>>
     ELSE AtBuild]

\* No instance has been built: there are no cells.
NoCells == [c \in {} |-> AtBuild]

\* The instance _buildSystem returns: both slots of both variables hold the
\* seed textures (lines 304-307, stamp 0), the compute renderer's current
\* index is 0, and the particle material shows the current targets (lines
\* 328-329); the density field is attached (lines 417-421) and its two
\* targets are empty (lines 356-357, stamp 0); the run flag is false (line
\* 477) and stop() has not been called.
BuiltInstance ==
  [st |-> "pending",
   cur |-> 0,
   stamp |-> [t \in {Target(v, k) : v \in {"position", "velocity"}, k \in {0, 1}}
                      \cup {Target("densityRT", 0), Target("densityRTTemp", 0)} |-> 0],
   shown |-> [position |-> Target("position", 0),
              velocity |-> Target("velocity", 0)],
   steps |-> 0,
   disposals |-> 0,
   released |-> [res \in Resources |-> 0],
   throws |-> FALSE,
   running |-> FALSE,
   stopped |-> FALSE,
   density |-> TRUE]

\* How a call that threw (or not) before its first await comes back to the
\* caller: an async function never throws to its caller, it returns a
\* promise.
Delivered(isAsync, threw) ==
  IF isAsync
  THEN [thrown |-> FALSE, promise |-> IF threw THEN "rejected" ELSE "pending"]
  ELSE [thrown |-> threw, promise |-> "none"]

\* if (!renderer) throw ...
Construct(renderer) ==
  /\ factory = "none"
  /\ factory' = IF renderer THEN "made" ELSE "none"
  /\ call' = [op |-> "constructor", renderer |-> renderer,
              how |-> Delivered(FALSE, ~renderer)]
  /\ UNCHANGED <<tracked, inst, cells, renderTarget, notPsf>>

\* A test that forgets the geometry.
HasMeshOnly(mesh) == mesh # "null"

\* planeMesh && planeMesh.geometry
HasGeometry(mesh) == mesh = "mesh"

Built == {i \in InstIds : inst[i].st # "none"}

Minimum(S) == CHOOSE m \in S : \A x \in S : m <= x

\* A build that leaves the renderer bound to what it found.
Kept(target) == target

\* this.renderer.setRenderTarget(null) after the off-screen passes (lines 312
\* and 465); the passes of the compute renderer before it (renderTexture,
\* compute) bind their target and put back the one they found.
Restored(target) == MainFramebuffer

\* async createFromPlane(planeMesh, {sdfData}) up to its await: the test of
\* line 31, then _buildSystem, which runs to its end without yielding.
CreateFromPlane(mesh, sdfData) ==
  /\ factory = "made"
  /\ Built # InstIds
  /\ LET ok == HasGeometry(mesh)
         i == Minimum(InstIds \ Built)
     IN /\ inst' = IF ok THEN [inst EXCEPT ![i] = BuiltInstance] ELSE inst
        /\ cells' = IF ok THEN BuiltCells(i, sdfData) @@ cells ELSE cells
        /\ renderTarget' = IF ok THEN Restored(renderTarget) ELSE renderTarget
        /\ call' = [op |-> "createFromPlane", mesh |-> mesh,
                    how |-> Delivered(TRUE, ~ok),
                    builtBefore |-> Built, trackedBefore |-> tracked]
  /\ UNCHANGED <<factory, tracked, notPsf>>

\* The first createFromPlane call made on the factory, with a mesh.
CreateFirst(sdfData) == Built = {} /\ CreateFromPlane("mesh", sdfData)

\* Set.add and Set.delete on the insertion-ordered set
SetAdd(seq, i) ==
  IF \E k \in 1 .. Len(seq) : seq[k] = i THEN seq ELSE Append(seq, i)
SetDelete(seq, i) == SelectSeq(seq, LAMBDA x : x # i)
Members(seq) == {seq[k] : k \in 1 .. Len(seq)}

\* createFromPlane after its await: this._instances.add(inst); return inst
CreateSettles(i) ==
  /\ inst[i].st = "pending"
  /\ tracked' = SetAdd(tracked, i)
  /\ inst' = [inst EXCEPT ![i].st = "live"]
  /\ call' = [op |-> "createFromPlane.then", i |-> i]
  /\ UNCHANGED <<factory, cells, renderTarget, notPsf>>

\* The other slot (GPUComputationRenderer.compute: nextTextureIndex).
NextIndex(cur) == IF cur = 0 THEN 1 ELSE 0

\* The density targets, named like the compute targets.
DensityRT == Target("densityRT", 0)
DensityRTTemp == Target("densityRTTemp", 0)

\* Lines 437-461: the splat of the current positions into densityRT, the
\* horizontal blur into densityRTTemp and the vertical blur back.
DensityPasses(cur) ==
  <<[name |-> "splat", reads |-> {Target("position", cur)}, writes |-> DensityRT],
    [name |-> "blurH", reads |-> {DensityRT}, writes |-> DensityRTTemp],
    [name |-> "blurV", reads |-> {DensityRTTemp}, writes |-> DensityRT]>>

\* The compute variables in the order of addVariable (lines 243-244), each
\* depending on both (lines 246-247); the velocity shader also samples
\* uDensityTex (line 459).
Variables == <<"position", "velocity">>
Dependencies(v) == {"position", "velocity"}
SamplesNothing(v) == {}
Samples(v) == IF v = "velocity" THEN {DensityRT} ELSE {}

\* gpuCompute.compute() (line 463; GPUComputationRenderer of three@0.128):
\* every variable, in order, reads its dependencies' targets of the current
\* index and is rendered into its own target of the next index.
ComputePasses(cur) ==
  [k \in 1 .. Len(Variables) |->
     [name |-> Variables[k],
      reads |-> {Target(d, cur) : d \in Dependencies(Variables[k])}
                  \cup Samples(Variables[k]),
      writes |-> Target(Variables[k], NextIndex(cur))]]

\* The targets of the other index (getAlternateRenderTarget).
AlternateTargets(cur) ==
  [position |-> Target("position", NextIndex(cur)),
   velocity |-> Target("velocity", NextIndex(cur))]

\* gpuCompute.getCurrentRenderTarget(variable), for both variables
CurrentTargets(cur) ==
  [position |-> Target("position", cur), velocity |-> Target("velocity", cur)]

\* The stamps after the passes of step number n.
Stamped(stamp, passes, n) ==
  [t \in DOMAIN stamp |->
     IF \E k \in 1 .. Len(passes) : passes[k].writes = t THEN n ELSE stamp[t]]

\* The body of instance.dispose has run on the instance.
WasDisposed(instance) == \E res \in Resources : instance.released[res] > 0

\* The cells one step writes and their new values: the times of both compute
\* stages (lines 428-431), the density texture when the density field is
\* attached (lines 459-460), and the current textures and the time of the
\* particle material (lines 471-473).
StepWrites(i, elapsed, delta, density, after) ==
  (Uniform(i, "position", "uTime") :> Elapsed(elapsed))
  @@ (Uniform(i, "velocity", "uTime") :> Elapsed(elapsed))
  @@ (Uniform(i, "position", "uDeltaTime") :> Delta(delta))
  @@ (Uniform(i, "velocity", "uDeltaTime") :> Delta(delta))
  @@ (IF density
      THEN (Uniform(i, "velocity", "uDensityTex") :> DensityRT)
           @@ (Uniform(i, "render", "uDensityTex") :> DensityRT)
      ELSE NoCells)
  @@ (Uniform(i, "render", "uTexturePosition") :> CurrentTargets(after).position)
  @@ (Uniform(i, "render", "uTextureVelocity") :> CurrentTargets(after).velocity)
  @@ (Uniform(i, "render", "uTime") :> Elapsed(elapsed))

\* The render target after the density passes: each binds its target and
\* leaves it bound, and line 457 binds the main framebuffer after the last.
AfterDensity(passes, target) == IF passes = <<>> THEN target ELSE MainFramebuffer

\* instance.step(elapsed, delta), lines 427-475. It tests neither the run
\* flag nor whether dispose() was called; the density passes run if
\* instance.density is set (line 437).
Step(i, elapsed, delta) ==
  /\ inst[i].st = "live"
  /\ inst[i].steps < MaxSteps
  /\ LET cur == inst[i].cur
         density == IF inst[i].density THEN DensityPasses(cur) ELSE <<>>
         compute == ComputePasses(cur)
         after == NextIndex(cur)
         writes == StepWrites(i, elapsed, delta, inst[i].density, after)
     IN /\ inst' = [inst EXCEPT
                      ![i].stamp = Stamped(@, density \o compute, inst[i].steps + 1),
                      ![i].cur = after,
                      ![i].shown = CurrentTargets(after),
                      ![i].steps = @ + 1]
        /\ cells' = writes @@ cells
        /\ renderTarget' = Restored(AfterDensity(density, renderTarget))
        /\ call' = [op |-> "step", i |-> i, before |-> cur,
                    afterDispose |-> WasDisposed(inst[i]),
                    passes |-> density \o compute,
                    renderParams |-> {c[3] : c \in {d \in DOMAIN writes : d[2] = "render"}},
                    running |-> inst[i].running,
                    stopped |-> inst[i].stopped,
                    targetBefore |-> renderTarget]
  /\ UNCHANGED <<factory, tracked, notPsf>>

\* The body of instance.dispose (lines 488-496) on the pair of the
\* instances and the tracked set: every resource gets a release call and the
\* instance leaves the set. There is no flag that remembers the call.
Disposed(state, i) ==
  [state EXCEPT
     !.inst[i].released = [res \in Resources |-> @[res] + 1],
     !.tracked = SetDelete(@, i)]

\* The caller replaces the dispose property of an instance (line 424) by a
\* function that throws.
ReplaceDispose(i) ==
  /\ inst[i].st = "live"
  /\ ~inst[i].throws
  /\ inst' = [inst EXCEPT ![i].throws = TRUE]
  /\ call' = [op |-> "replace dispose", i |-> i]
  /\ UNCHANGED <<factory, tracked, cells, renderTarget, notPsf>>

\* One call of inst.dispose(): the state after it and whether it threw.
InvokeDispose(state, i) ==
  LET counted == [state EXCEPT !.inst[i].disposals = @ + 1,
                               !.invoked[i] = @ + 1]
  IN IF state.inst[i].throws
     THEN [counted EXCEPT !.threw = TRUE]
     ELSE Disposed(counted, i)

\* The caller calls inst.dispose().
Dispose(i) ==
  /\ inst[i].st = "live"
  /\ inst[i].disposals < MaxDisposals
  /\ LET after == InvokeDispose([inst |-> inst, tracked |-> tracked, threw |-> FALSE,
                                 invoked |-> [j \in InstIds |-> 0]], i)
     IN /\ inst' = after.inst
        /\ tracked' = after.tracked
        /\ call' = [op |-> "dispose", i |-> i, thrown |-> after.threw]
  /\ UNCHANGED <<factory, cells, renderTarget, notPsf>>

\* A loop body without the try: the exception leaves the loop.
Propagated(state) == [state EXCEPT !.aborted = TRUE]

\* try { inst.dispose(); } catch (e) {}: the exception is dropped.
Caught(state) == [state EXCEPT !.threw = FALSE]

\* for (const inst of Array.from(this._instances)) { ... }
RECURSIVE DisposeEach(_, _, _)
DisposeEach(snapshot, k, state) ==
  IF k > Len(snapshot) \/ state.aborted THEN state
  ELSE LET after == InvokeDispose(state, snapshot[k])
       IN DisposeEach(snapshot, k + 1, IF after.threw THEN Caught(after) ELSE after)

\* ParticleSystemFactory.dispose(), lines 507-512
FactoryDispose ==
  /\ factory = "made"
  /\ \A i \in Members(tracked) : inst[i].disposals < MaxDisposals
  /\ LET after == DisposeEach(tracked, 1,
                    [inst |-> inst, tracked |-> tracked, threw |-> FALSE,
                     aborted |-> FALSE, invoked |-> [j \in InstIds |-> 0]])
     IN /\ inst' = after.inst
        /\ tracked' = IF after.aborted THEN after.tracked ELSE <<>>
        /\ call' = [op |-> "factory.dispose", start |-> Members(tracked),
                    invoked |-> after.invoked, thrown |-> after.aborted]
  /\ UNCHANGED <<factory, cells, renderTarget, notPsf>>

\* The parameter values that are tried.
Values == {1, 2}

\* The keys of the maps passed to updateUniforms: the plane parameters (two
\* stages), a name of all three stages and a name no stage declares.
Keys == PlaneUniforms \cup {"uTime", "uUnknown"}

\* The key tried on two instances that reference one volume.
SharedKeys == {"uSDF"}

\* The maps over at most two of the given keys.
Maps(keys) ==
  UNION {[K -> Values] : K \in {L \in SUBSET keys : Cardinality(L) <= 2}}

\* An update that stops at the first stage that declares the key.
FirstDeclaring(i, k) ==
  IF Declares("velocity", k) THEN {Uniform(i, "velocity", k)}
  ELSE IF Declares("position", k) THEN {Uniform(i, "position", k)}
  ELSE IF Declares("render", k) THEN {Uniform(i, "render", k)}
  ELSE {}

\* The cells updateUniforms writes for key k: the cell of every stage that
\* declares k (the three tests of lines 482-484).
Written(i, k) ==
  {Uniform(i, stage, k) : stage \in {t \in StageNames : Declares(t, k)}}

\* instance.updateUniforms(u), lines 480-486
UpdateUniforms(i, u) ==
  /\ inst[i].st = "live"
  /\ LET writes ==
           [c \in UNION {Written(i, k) : k \in DOMAIN u} |->
              Given(u[CHOOSE k \in DOMAIN u : c \in Written(i, k)])]
     IN cells' = writes @@ cells
  /\ call' = [op |-> "updateUniforms", i |-> i, u |-> u]
  /\ UNCHANGED <<factory, tracked, inst, renderTarget, notPsf>>

\* A start() that also runs a step.
StartedAndStepped(instance) ==
  [instance EXCEPT !.running = TRUE, !.stopped = FALSE, !.cur = NextIndex(@)]

\* running = true
Started(instance) == [instance EXCEPT !.running = TRUE, !.stopped = FALSE]

\* instance.start(), line 478
Start(i) ==
  /\ inst[i].st = "live"
  /\ inst' = [inst EXCEPT ![i] = Started(@)]
  /\ call' = [op |-> "start", i |-> i]
  /\ UNCHANGED <<factory, tracked, cells, renderTarget, notPsf>>

\* instance.stop(), line 479
Stop(i) ==
  /\ inst[i].st = "live"
  /\ inst' = [inst EXCEPT ![i].running = FALSE, ![i].stopped = TRUE]
  /\ call' = [op |-> "stop", i |-> i]
  /\ UNCHANGED <<factory, tracked, cells, renderTarget, notPsf>>

\* The caller clears the density field of an instance (instance.density,
\* tested at line 437).
DetachDensity(i) ==
  /\ inst[i].st = "live"
  /\ inst[i].density
  /\ inst' = [inst EXCEPT ![i].density = FALSE]
  /\ call' = [op |-> "detach density", i |-> i]
  /\ UNCHANGED <<factory, tracked, cells, renderTarget, notPsf>>

\* The caller, who shares the renderer with the factory (line 23), binds a
\* render target of its own or the main framebuffer between two calls.
BindTarget(target) ==
  /\ factory = "made"
  /\ target # renderTarget
  /\ renderTarget' = target
  /\ call' = [op |-> "renderer.setRenderTarget", target |-> target]
  /\ UNCHANGED <<factory, tracked, inst, cells, notPsf>>

(***************************************************************************)
(* The specifications                                                      *)
(***************************************************************************)

\* A new SDFGenerator (constructor, lines 5-8).
InitGen ==
  /\ cancelFlag = FALSE
  /\ runs = NoRuns
  /\ voxel = VoxIdle
  /\ frame = FrameIdle
  /\ factory = "none"
  /\ tracked = <<>>
  /\ inst = NoInstances
  /\ call = NoCall
  /\ cells = NoCells
  /\ renderTarget = MainFramebuffer
  /\ sdf = SharedVolume

NextGen ==
  \/ \E r \in RunIds, scene \in BOOLEAN, n \in Sizes, cb \in BOOLEAN :
       Generate(r, scene, n, cb)
  \/ \E r \in RunIds : Resume(r)
  \/ Cancel
  \/ GeneratorDispose

SpecGen == InitGen /\ [][NextGen]_vars

InitVoxel ==
  /\ cancelFlag = FALSE
  /\ runs = NoRuns
  /\ voxel \in VoxelInputs
  /\ frame = FrameIdle
  /\ factory = "none"
  /\ tracked = <<>>
  /\ inst = NoInstances
  /\ call = NoCall
  /\ cells = NoCells
  /\ renderTarget = MainFramebuffer
  /\ sdf = SharedVolume

NextVoxel == StoreVoxel

SpecVoxel == InitVoxel /\ [][NextVoxel]_vars

InitFrame ==
  /\ cancelFlag = FALSE
  /\ runs = NoRuns
  /\ voxel = VoxIdle
  /\ frame \in {[pc |-> "mesh", verts |-> v] : v \in VertexLists}
  /\ factory = "none"
  /\ tracked = <<>>
  /\ inst = NoInstances
  /\ call = NoCall
  /\ cells = NoCells
  /\ renderTarget = MainFramebuffer
  /\ sdf = SharedVolume

NextFrame == BuildFrame

SpecFrame == InitFrame /\ [][NextFrame]_vars

\* No factory has been constructed.
InitFactory ==
  /\ cancelFlag = FALSE
  /\ runs = NoRuns
  /\ voxel = VoxIdle
  /\ frame = FrameIdle
  /\ factory = "none"
  /\ tracked = <<>>
  /\ inst = NoInstances
  /\ call = NoCall
  /\ cells = NoCells
  /\ renderTarget = MainFramebuffer
  /\ sdf = SharedVolume

\* Creation and teardown: sdfData keeps its default (null) and every step()
\* is given the same times.
NextFactory ==
  \/ \E renderer \in BOOLEAN : Construct(renderer)
  \/ \E mesh \in Meshes : CreateFromPlane(mesh, FALSE)
  \/ \E i \in InstIds : CreateSettles(i)
  \/ \E i \in InstIds : Step(i, 1, 1)
  \/ \E i \in InstIds : ReplaceDispose(i)
  \/ \E i \in InstIds : Dispose(i)
  \/ FactoryDispose

SpecFactory == InitFactory /\ [][NextFactory]_vars

\* One instance and its parameters: the instance is built, stepped and
\* updated with every map.
NextParams ==
  \/ Construct(TRUE)
  \/ CreateFirst(FALSE)
  \/ \E i \in InstIds : CreateSettles(i)
  \/ \E i \in InstIds : Step(i, 1, 1)
  \/ \E i \in InstIds, u \in Maps(Keys) : UpdateUniforms(i, u)

SpecParams == InitFactory /\ [][NextParams]_vars

\* Two instances on one renderer, which the caller uses too: the run flag,
\* the density field and the render target.
NextEngine ==
  \/ Construct(TRUE)
  \/ \E target \in {MainFramebuffer, CallerTarget} : BindTarget(target)
  \/ \E sdfData \in BOOLEAN : CreateFromPlane("mesh", sdfData)
  \/ \E i \in InstIds : CreateSettles(i)
  \/ \E i \in InstIds : Step(i, 1, 1)
  \/ \E i \in InstIds : Start(i)
  \/ \E i \in InstIds : Stop(i)
  \/ \E i \in InstIds : DetachDensity(i)

SpecEngine == InitFactory /\ [][NextEngine]_vars

\* Two instances that reference the same volume, stepped, updated and disposed
\* in any order.
NextShared ==
  \/ Construct(TRUE)
  \/ CreateFromPlane("mesh", TRUE)
  \/ \E i \in InstIds : CreateSettles(i)
  \/ \E i \in InstIds : Step(i, 1, 1)
  \/ \E i \in InstIds, u \in Maps(SharedKeys) : UpdateUniforms(i, u)
  \/ \E i \in InstIds : Dispose(i)

SpecShared == InitFactory /\ [][NextShared]_vars

(***************************************************************************)
(* Claims about generate()                                                 *)
(***************************************************************************)

\* The slices a call has computed so far.
SlicesDone(run) == IF run.n = 0 THEN 0 ELSE run.counted \div (run.n * run.n)

\* C1: a generate() call on which cancel() was called while it was in
\* progress (at any yield, the one after the last slice included) ends by
\* failing with the cancellation error before all n slices are computed,
\* and never resolves with a Volume.
C1_CancelDuringRunFails ==
  \A r \in RunIds :
    (runs[r].cancelSeen /\ runs[r].pc # "suspended")
      => (runs[r].pc = "cancelled" /\ SlicesDone(runs[r]) < runs[r].n)

\* C5: every slice a call has computed was followed by a yield before the
\* next slice started or the call ended, with or without onProgress.
C5_YieldAfterEverySlice ==
  \A r \in RunIds :
    \A z \in 0 .. (SlicesDone(runs[r]) - 1) :
      (z < runs[r].z \/ runs[r].pc \in {"resolved", "cancelled"})
        => z \in runs[r].yields

\* a/b < c/d and a/b <= c/d for fractions with positive denominators
FracLess(p, q) == p[1] * q[2] < q[1] * p[2]
FracLeq(p, q) == p[1] * q[2] <= q[1] * p[2]

ProgressOrdered(run) ==
  /\ \A i \in 1 .. Len(run.progress) :
       /\ run.progress[i][2] > 0
       /\ FracLeq(<<0, 1>>, run.progress[i])
       /\ FracLeq(run.progress[i], <<1, 1>>)
  /\ \A i \in 1 .. (Len(run.progress) - 1) :
       FracLess(run.progress[i], run.progress[i + 1])

\* C6: the values one call passes to onProgress are strictly increasing and
\* lie in [0,1], and a call that has failed with the cancellation error
\* makes no further onProgress call.
C6_ProgressIncreasing ==
  /\ [](\A r \in RunIds : ProgressOrdered(runs[r]))
  /\ [][\A r \in RunIds :
          runs[r].pc = "cancelled" => runs'[r].progress = runs[r].progress]_vars

\* A throttled call (stride 2) that reported at least twice and was then
\* cancelled.
C6_Witness ==
  \E r \in RunIds :
    /\ runs[r].pc = "cancelled"
    /\ Stride(runs[r].n) = 2
    /\ Len(runs[r].progress) >= 2

\* The call waits at a yield with slices left to compute, and cancel() was
\* called on the generator while it waited.
CancelledWithSlicesLeft(run) ==
  run.pc = "suspended" /\ run.cancelSeen /\ run.z + 1 < run.n

\* C17: a generate() call that is suspended at a yield with slices remaining
\* and on which cancel() has been called fails with the cancellation error at
\* its next resumption, whatever was called on the generator in between
\* (another generate() included).
C17_CancellationNeverLost ==
  [][\A r \in RunIds :
       (CancelledWithSlicesLeft(runs[r]) /\ runs'[r] # runs[r])
         => runs'[r].pc = "cancelled"]_vars

\* |a| <= b for a finite a and b >= 0
WithinBound(a, b) == a.k = "fin" /\ -b <= a.v /\ a.v <= b

IsUnit(s) == LengthSq(s.num) = s.den2
Orthogonal(a, b) == Dot(a.num, b.num) = 0

Orthonormal(b) ==
  /\ IsUnit(b.basisX) /\ IsUnit(b.basisY) /\ IsUnit(b.basisZ)
  /\ Orthogonal(b.basisX, b.basisY)
  /\ Orthogonal(b.basisY, b.basisZ)
  /\ Orthogonal(b.basisZ, b.basisX)

\* The list holds three vertices that are not on one line.
HasNonCollinearTriple(verts) ==
  \E i, j, k \in 1 .. Len(verts) :
    LengthSq(CrossVectors(SubVectors(verts[j], verts[i]),
                          SubVectors(verts[k], verts[i]))) > 0

\* C10: for every vertex list that holds three non-collinear vertices, in
\* any order, the derived basisX, basisY and basisZ are non-zero unit
\* vectors and pairwise orthogonal.
C10_BasisOrthonormal ==
  (frame.pc = "built" /\ HasNonCollinearTriple(frame.verts))
    => Orthonormal(frame.basis)

(***************************************************************************)
(* Claims about the factory and its instances                              *)
(***************************************************************************)

\* C2: dispose() called twice on an instance, or on the factory, raises no
\* error, and over any sequence of dispose() calls each resource of an
\* instance receives at most one release call.
C2_NoResourceReleasedTwice ==
  /\ \A i \in Built : \A res \in Resources : inst[i].released[res] <= 1
  /\ (call.op = "dispose" /\ ~inst[call.i].throws) => ~call.thrown
  /\ call.op = "factory.dispose" => ~call.thrown

\* C3: one factory dispose() invokes dispose() exactly once on every
\* instance tracked when it starts (and on no other), an instance whose
\* dispose() throws does not keep the others from being invoked, and the
\* tracked set is empty when the call returns.
C3_BulkDisposeInvokesEachOnce ==
  call.op = "factory.dispose" =>
    /\ \A i \in InstIds : call.invoked[i] = IF i \in call.start THEN 1 ELSE 0
    /\ ~call.thrown
    /\ tracked = <<>>

\* A factory dispose() over two tracked instances, the first of which
\* throws; the second has been released.
C3_Witness ==
  /\ call.op = "factory.dispose"
  /\ call.start = {1, 2}
  /\ inst[1].throws /\ ~inst[2].throws
  /\ inst[2].released["geometry"] = 1
  /\ call.invoked[1] = 1 /\ call.invoked[2] = 1

ComputePassesOf(passes) ==
  {passes[k] : k \in {j \in 1 .. Len(passes) : passes[j].name \in {"position", "velocity"}}}

\* C4: in every state one slot is current for both position and velocity
\* and it is the one the particle material shows; in a step() every compute
\* pass reads position and velocity from the slot that was current and
\* writes the other slot, no compute pass writes a target a compute pass of
\* that step reads, the current slot flips once, and the targets shown after
\* the step are the ones that step wrote.
C4_DoubleBuffering ==
  /\ \A i \in Built :
       /\ inst[i].cur \in {0, 1}
       /\ inst[i].shown.position = <<"position", inst[i].cur>>
       /\ inst[i].shown.velocity = <<"velocity", inst[i].cur>>
  /\ call.op = "step" =>
       LET compute == ComputePassesOf(call.passes)
           me == inst[call.i]
       IN /\ {p.name : p \in compute} = {"position", "velocity"}
          /\ \A p \in compute :
               /\ {<<"position", call.before>>, <<"velocity", call.before>>} \subseteq p.reads
               /\ \A t \in p.reads : t[1] \in {"position", "velocity"} => t[2] = call.before
               /\ p.writes = <<p.name, 1 - call.before>>
               /\ \A q \in compute : p.writes \notin q.reads
          /\ me.cur = 1 - call.before
          /\ me.stamp[me.shown.position] = me.steps
          /\ me.stamp[me.shown.velocity] = me.steps

\* The second step() of an instance: slot 0 is current again.
C4_Witness ==
  /\ call.op = "step"
  /\ inst[call.i].steps = 2
  /\ inst[call.i].cur = 0
  /\ call.before = 1

\* C7: a step() made after dispose() runs no pass, swaps no buffer and
\* writes no render-stage parameter.
C7_NoWorkAfterDispose ==
  (call.op = "step" /\ call.afterDispose) =>
    /\ call.passes = <<>>
    /\ call.renderParams = {}
    /\ inst[call.i].cur = call.before

\* A call with a missing construction input
MissingRenderer == call.op = "constructor" /\ ~call.renderer
MissingMesh == call.op = "createFromPlane" /\ call.mesh \in {"null", "nogeometry"}

C11_UpdateWritesEveryDeclaringStage ==
  /\ [](call.op = "updateUniforms" =>
          \A k \in DOMAIN call.u : \A stage \in StageNames :
            Declares(stage, k) =>
              cells[Uniform(call.i, stage, k)] = Given(call.u[k]))
  /\ [][call'.op = "updateUniforms" =>
          /\ DOMAIN cells' = DOMAIN cells
          /\ \A c \in DOMAIN cells :
               c[3] \notin DOMAIN call'.u => cells'[c] = cells[c]
          /\ (\A k \in DOMAIN call'.u : \A stage \in StageNames : ~Declares(stage, k))
               => cells' = cells
          /\ inst' = inst]_vars

\* updateUniforms({uTime: 2, uUnknown: 1}) after a step: the time of the
\* compute stages and of the render stage is the given one, the delta time is
\* still the one of the step.
C11_Witness ==
  /\ call.op = "updateUniforms"
  /\ DOMAIN call.u = {"uTime", "uUnknown"}
  /\ call.u["uTime"] = 2
  /\ inst[call.i].steps > 0
  /\ cells[Uniform(call.i, "velocity", "uTime")] = Given(2)
  /\ cells[Uniform(call.i, "render", "uTime")] = Given(2)
  /\ cells[Uniform(call.i, "position", "uDeltaTime")] = Delta(1)

\* C15: for the plane offset and the three plane basis vectors the velocity
\* stage and the position stage hold one and the same cell, so that in every
\* state the two stages read identical values for these four parameters.
C15_PlaneParametersShared ==
  \A i \in Built : \A k \in PlaneUniforms :
    /\ Uniform(i, "velocity", k) = Uniform(i, "position", k)
    /\ cells[Uniform(i, "velocity", k)] = cells[Uniform(i, "position", k)]

\* updateUniforms({planeOffset: 1, planeBasisZ: 2}): both stages read the
\* given values.
C15_Witness ==
  /\ call.op = "updateUniforms"
  /\ DOMAIN call.u = {"planeOffset", "planeBasisZ"}
  /\ cells[Uniform(call.i, "velocity", "planeOffset")] = Given(call.u["planeOffset"])
  /\ cells[Uniform(call.i, "position", "planeBasisZ")] = Given(2)

\* C12: a step(), updateUniforms() or dispose() call on one instance leaves
\* every other instance's buffers, current slot, density targets and
\* parameters as they were, and the volume the instances share is neither
\* written nor released by any of these calls.
C12_InstancesIndependent ==
  [][call'.op \in {"step", "updateUniforms", "dispose"} =>
       /\ \A b \in Built \ {call'.i} :
            /\ inst'[b] = inst[b]
            /\ \A stage \in StageNames : \A k \in Declared(stage) :
                 cells'[Uniform(b, stage, k)] = cells[Uniform(b, stage, k)]
       /\ sdf' = sdf]_vars

\* Two instances on one volume: the first was given another uSDF and has
\* been disposed, the second has been stepped and still reads the volume's
\* texture, and the volume is as the caller made it.
C12_Witness ==
  /\ call.op = "dispose"
  /\ call.i = 1
  /\ cells[Uniform(1, "velocity", "uSDF")] = Given(1)
  /\ inst[2].st = "live"
  /\ inst[2].steps > 0
  /\ ~WasDisposed(inst[2])
  /\ cells[Uniform(2, "velocity", "uSDF")] = sdf.texture
  /\ sdf = SharedVolume

(***************************************************************************)
(* Claims about step()                                                     *)
(***************************************************************************)

PassNames(passes) == [k \in 1 .. Len(passes) |-> passes[k].name]

\* C13: a step() runs all of its passes and swaps the buffers whatever the
\* run flag is and whichever of start() and stop() was called last, and
\* start() and stop() change nothing but the flag.
C13_StepIgnoresRunFlag ==
  /\ [](call.op = "step" =>
          /\ PassNames(call.passes) =
               (IF inst[call.i].density THEN <<"splat", "blurH", "blurV">> ELSE <<>>)
                 \o <<"position", "velocity">>
          /\ inst[call.i].cur = 1 - call.before
          /\ inst[call.i].stamp[inst[call.i].shown.position] = inst[call.i].steps)
  /\ [][call'.op \in {"start", "stop"} =>
          /\ \A j \in InstIds \ {call'.i} : inst'[j] = inst[j]
          /\ [inst'[call'.i] EXCEPT !.running = inst[call'.i].running,
                                    !.stopped = inst[call'.i].stopped] = inst[call'.i]
          /\ inst'[call'.i].running = (call'.op = "start")
          /\ factory' = factory /\ tracked' = tracked /\ cells' = cells
          /\ renderTarget' = renderTarget /\ sdf' = sdf]_vars

\* The second step() of an instance, made after stop(): five passes.
C13_Witness ==
  /\ call.op = "step"
  /\ call.stopped /\ ~call.running
  /\ Len(call.passes) = 5
  /\ inst[call.i].steps = 2

\* Every pass reads what the pass before it wrote.
Chained(passes) ==
  \A k \in 2 .. Len(passes) : passes[k - 1].writes \in passes[k].reads

\* C14 as stated: the passes of a step() run in the order splat, blur-H,
\* blur-V, velocity compute, position compute, and each reads the output of
\* the pass before it (the position compute reads the velocity written in
\* the same step).
C14_PassesChained ==
  (call.op = "step" /\ inst[call.i].density) =>
    /\ PassNames(call.passes) = <<"splat", "blurH", "blurV", "velocity", "position">>
    /\ Chained(call.passes)

\* C14 as amended: the passes of a step() of an instance with its density
\* field run in the order splat, blur-H, blur-V, position compute, velocity
\* compute; the splat reads the current positions, blur-H reads the splat
\* target, blur-V the scratch target and the velocity compute the density
\* written by blur-V; both compute passes read position and velocity from
\* the slot that was current before the step, so the position compute reads
\* the old velocity and neither reads what the other writes.
C14_PassesOrderedAsBuilt ==
  (call.op = "step" /\ inst[call.i].density) =>
    LET passes == call.passes
    IN /\ PassNames(passes) = <<"splat", "blurH", "blurV", "position", "velocity">>
       /\ passes[1].reads = {<<"position", call.before>>}
       /\ passes[1].writes \in passes[2].reads
       /\ passes[2].writes \in passes[3].reads
       /\ passes[3].writes \in passes[5].reads
       /\ \A k \in {4, 5} :
            /\ {<<"position", call.before>>, <<"velocity", call.before>>}
                 \subseteq passes[k].reads
            /\ passes[4].writes \notin passes[k].reads
            /\ passes[5].writes \notin passes[k].reads

\* A step() with slot 1 current, on an instance that has its density field.
C14_Witness ==
  /\ call.op = "step"
  /\ inst[call.i].density
  /\ call.before = 1
  /\ Len(call.passes) = 5

\* C16: when createFromPlane has built an instance, and when a step()
\* returns, with or without the density field, the renderer is bound to the
\* main framebuffer, whatever it was bound to before the call.
C16_MainFramebufferRestored ==
  (\/ call.op = "step"
   \/ (call.op = "createFromPlane" /\ call.how.promise = "pending"))
    => renderTarget = MainFramebuffer

\* A step() without the density field, made while the caller's own target
\* was bound.
C16_Witness ==
  /\ call.op = "step"
  /\ call.targetBefore = CallerTarget
  /\ ~inst[call.i].density
  /\ renderTarget = MainFramebuffer

(***************************************************************************)
(* Claims about teardown                                                   *)
(***************************************************************************)

\* C18: when factory.dispose() returns, every instance built by a
\* createFromPlane call made before it has been disposed (unless the caller
\* replaced its dispose), a pending call included, and the tracked set stays
\* empty until a new createFromPlane call is made.
C18_NoInstanceEscapesTeardown ==
  /\ [](call.op = "factory.dispose" =>
          \A i \in Built : inst[i].throws \/ WasDisposed(inst[i]))
  /\ [][(call.op = "factory.dispose" /\ call'.op # "createFromPlane")
          => tracked' = <<>>]_vars

=============================================================================
